---- MODULE Spec2Model ----
(***************************************************************************)
(* TikTok-Chat-Reader: the subscriber server (server.js), the per-session  *)
(* connection wrapper (connectionWrapper.js) and the admission limiter     *)
(* (limiter.js).                                                           *)
(*                                                                         *)
(* Subscriber sockets carry no name the code ever looks at, so the live    *)
(* socket map io.of('/').sockets is a bag of socket records.  A socket     *)
(* record holds its handshake and the wrappers its listener constructed;   *)
(* the closure variable tiktokConnectionWrapper is the last of them.       *)
(* Wrappers whose socket has gone keep running on their own timers and     *)
(* promises and are kept in the "departed" bag.                            *)
(***************************************************************************)
EXTENDS Integers, Sequences, FiniteSets, Bags, TLC

\* ------------------------------------------------------------------------
\* Program constants
\* ------------------------------------------------------------------------
MAX_IP_CONNECTIONS == 10
MAX_IP_REQUESTS_PER_MINUTE == 5
maxReconnectAttempts == 5
maxReconnectWaitMs == 32000
initialReconnectWaitMs == 1000

\* ------------------------------------------------------------------------
\* Bounds of the model
\* ------------------------------------------------------------------------
\* live subscriber sockets, admission specification
MaxLive == 12
\* live sockets whose handshake is not the plain peer address "A"
MaxOther == 1
\* admission checks of identity "A" within one window
MaxChecks == 11
\* admission checks of any other identity within one window
MaxOtherChecks == 2
\* wrappers constructed, admission specification
MaxAdmitted == 7
\* live subscriber sockets and wrappers constructed, lifecycle specification
MaxSockets == 1
MaxWrappers == 1
\* live subscriber sockets and wrappers constructed, fleet specification
FleetSockets == 2
FleetWrappers == 2
\* reconnect timers of one wrapper armed at the same time, and reconnect
\* attempts of one wrapper in flight at the same time
MaxTimers == 2
MaxInFlight == 2
\* the same, fleet specification
FleetTimers == 1
FleetInFlight == 1
\* reconnect timers and reconnect attempts of one wrapper pending together,
\* lost-session specification
LostPending == 3

\* ------------------------------------------------------------------------
\* JavaScript values
\* ------------------------------------------------------------------------
Null == "<null>"
Undefined == "<undefined>"
Truthy(v) == v \notin {Null, Undefined, ""}

MapGet(m, k) == IF k \in DOMAIN m THEN m[k] ELSE 0
MapSet(m, k, v) == [x \in (DOMAIN m) \cup {k} |-> IF x = k THEN v ELSE m[x]]
EmptyMap == [x \in {} |-> 0]

Min(a, b) == IF a < b THEN a ELSE b
Max(a, b) == IF a > b THEN a ELSE b

\* ------------------------------------------------------------------------
\* Handshakes the subscribers present
\* ------------------------------------------------------------------------
Identities == {"A", "B"}
Loopback == {"::1", "::ffff:127.0.0.1"}

Handshake(address, xff) == [address |-> address, xff |-> xff]
DirectA == Handshake("A", Undefined)
Handshakes ==
    { DirectA,
      Handshake("::1", "B"),
      Handshake("::ffff:127.0.0.1", ""),
      Handshake(Undefined, "A") }

VARIABLES
    sockets,              \* bag of live subscriber sockets
    departed,             \* bag of wrappers whose socket has disconnected
    ipRequestCounts,      \* limiter.js: identity -> requests in this window
    globalConnectionCount,
    rateLimitEnabled,     \* process.env.ENABLE_RATE_LIMIT
    checks,               \* history: admission checks per identity since the last reset
    last,                 \* history: what the last handler run did
    floored               \* history: a disconnected event arrived at counter 0

vars == <<sockets, departed, ipRequestCounts, globalConnectionCount,
          rateLimitEnabled, checks, last, floored>>

\* ------------------------------------------------------------------------
\* limiter.js
\* ------------------------------------------------------------------------
\* Faulty variant: a loopback peer without the forwarded header keeps its
\* own address as identity.
getSocketIpOrPeer(socket) ==
    LET ip == socket.handshake.address IN
    IF ~Truthy(ip) THEN Null
    ELSE IF ip \in Loopback
         THEN (IF Truthy(socket.handshake.xff) THEN socket.handshake.xff ELSE ip)
         ELSE ip

getSocketIp(socket) ==
    LET ip == socket.handshake.address IN
    IF ~Truthy(ip) THEN Null
    ELSE IF ip \in Loopback
         THEN (IF Truthy(socket.handshake.xff) THEN socket.handshake.xff ELSE Null)
         ELSE ip

RECURSIVE forEachSocket(_, _)
forEachSocket(io, ipCounts) ==
    IF io = EmptyBag THEN ipCounts
    ELSE LET socket == CHOOSE s \in BagToSet(io) : TRUE
             ip == getSocketIp(socket)
             rest == io (-) SetToBag({socket})
         IN  forEachSocket(rest,
                 IF ip = Null THEN ipCounts
                 ELSE MapSet(ipCounts, ip, MapGet(ipCounts, ip) + 1))

getOverallIpConnectionCounts(io) == forEachSocket(io, EmptyMap)

\* Faulty variant: the request is not counted.
clientBlockedUncounted(io, currentSocket, requestCounts) ==
    LET ipCounts == getOverallIpConnectionCounts(io)
        currentIp == getSocketIp(currentSocket)
        currentIpConnections == MapGet(ipCounts, currentIp)
        currentIpRequests == MapGet(requestCounts, currentIp)
    IN  IF currentIp = Null
        THEN [blocked |-> FALSE, ipRequestCounts |-> requestCounts]
        ELSE IF currentIpConnections > MAX_IP_CONNECTIONS
        THEN [blocked |-> TRUE, ipRequestCounts |-> requestCounts]
        ELSE IF currentIpRequests > MAX_IP_REQUESTS_PER_MINUTE
        THEN [blocked |-> TRUE, ipRequestCounts |-> requestCounts]
        ELSE [blocked |-> FALSE, ipRequestCounts |-> requestCounts]

\* Faulty variant: the connection ceiling is compared with >=.
clientBlockedAtCeiling(io, currentSocket, requestCounts) ==
    LET ipCounts == getOverallIpConnectionCounts(io)
        currentIp == getSocketIp(currentSocket)
        currentIpConnections == MapGet(ipCounts, currentIp)
        currentIpRequests == MapGet(requestCounts, currentIp)
        counted == MapSet(requestCounts, currentIp, currentIpRequests + 1)
    IN  IF currentIp = Null
        THEN [blocked |-> FALSE, ipRequestCounts |-> requestCounts]
        ELSE IF currentIpConnections >= MAX_IP_CONNECTIONS
        THEN [blocked |-> TRUE, ipRequestCounts |-> counted]
        ELSE IF currentIpRequests > MAX_IP_REQUESTS_PER_MINUTE
        THEN [blocked |-> TRUE, ipRequestCounts |-> counted]
        ELSE [blocked |-> FALSE, ipRequestCounts |-> counted]

\* The result of clientBlocked and the request map it leaves behind.
clientBlocked(io, currentSocket, requestCounts) ==
    LET ipCounts == getOverallIpConnectionCounts(io)
        currentIp == getSocketIp(currentSocket)
        currentIpConnections == MapGet(ipCounts, currentIp)
        currentIpRequests == MapGet(requestCounts, currentIp)
        counted == MapSet(requestCounts, currentIp, currentIpRequests + 1)
    IN  IF currentIp = Null
        THEN [blocked |-> FALSE, ipRequestCounts |-> requestCounts]
        ELSE IF currentIpConnections > MAX_IP_CONNECTIONS
        THEN [blocked |-> TRUE, ipRequestCounts |-> counted]
        ELSE IF currentIpRequests > MAX_IP_REQUESTS_PER_MINUTE
        THEN [blocked |-> TRUE, ipRequestCounts |-> counted]
        ELSE [blocked |-> FALSE, ipRequestCounts |-> counted]


\* ------------------------------------------------------------------------
\* connectionWrapper.js: one TikTokConnectionWrapper and its upstream session
\* ------------------------------------------------------------------------
\* The private fields after the constructor; isConnected is what
\* this.#connection.getState() reports; initial is the promise of the
\* connect() call the server makes, reconnecting the connect(true) calls
\* awaiting their outcome, timers the setTimeout callbacks not yet run.
\* The remaining fields are history, read by the properties only and kept
\* for a traced wrapper only.
newWrapper(traced) ==
    [ clientDisconnected |-> FALSE,
      reconnectEnabled   |-> TRUE,
      reconnectCount     |-> 0,
      reconnectWaitMs    |-> initialReconnectWaitMs,
      isConnected        |-> FALSE,
      initial            |-> "none",
      reconnecting       |-> 0,
      timers             |-> 0,
      traced             |-> traced,
      attempts           |-> 0,      \* connect(true) calls since the last success
      armedInRow         |-> 0,      \* timers armed since the last success
      lastArmedMs        |-> 0,      \* delay of the timer armed last
      lastArmedAt        |-> 0,      \* reconnectCount when that timer was armed
      disconnectCalls    |-> 0,      \* calls of disconnect(), 2 for two or more
      lateTeardowns      |-> 0,      \* upstream disconnect() by a call after the first
      askedWhilePending  |-> FALSE,  \* disconnect() came while the initial connect was pending
      ended              |-> FALSE,  \* the 'streamEnd' listener has run
      startedAfterEnd    |-> FALSE,  \* connect(true) was called after it
      startedAfterDisconnect |-> FALSE, \* connect(true) was called after disconnect()
      firedAfterDisconnect |-> FALSE, \* a timer has fired after disconnect()
      startedAfterGiveUp |-> FALSE,  \* connect(true) was called after giving up
      emittedDisconnected |-> 0,     \* 'disconnected' emitted, 2 for two or more
      disconnectedCauses |-> {},     \* why: "initial", "exhausted", "disabled"
      emittedConnected   |-> 0,      \* 'connected' emitted, 2 for two or more
      connectedCauses    |-> {},     \* by which connect: "initial", "reconnect"
      reconnected        |-> FALSE ] \* a reconnect attempt has succeeded

\* connect(), up to its await: the upstream connect is in flight.
connect(w, isReconnect) ==
    IF isReconnect
    THEN [w EXCEPT !.reconnecting = @ + 1,
                   !.attempts = IF w.traced THEN @ + 1 ELSE @,
                   !.startedAfterEnd = @ \/ (w.traced /\ w.ended),
                   !.startedAfterDisconnect = @ \/ (w.traced /\ w.clientDisconnected),
                   !.startedAfterGiveUp = @ \/ "exhausted" \in w.disconnectedCauses]
    ELSE [w EXCEPT !.initial = "pending"]

\* this.emit('disconnected', ...), cause being the branch that emits
emitDisconnected(w, cause) ==
    IF w.traced
    THEN [w EXCEPT !.emittedDisconnected = Min(@ + 1, 2),
                   !.disconnectedCauses = @ \cup {cause}]
    ELSE w

\* this.emit('connected', state)
emitConnected(w, cause) ==
    IF w.traced
    THEN [w EXCEPT !.emittedConnected = Min(@ + 1, 2),
                   !.connectedCauses = @ \cup {cause}]
    ELSE w

\* Faulty variant: no early return for a wrapper already disconnected.
disconnectAgain(w) ==
    LET called == IF w.traced
                  THEN [w EXCEPT !.disconnectCalls = Min(@ + 1, 2)]
                  ELSE w
    IN  [called EXCEPT
           !.clientDisconnected = TRUE,
           !.reconnectEnabled = FALSE,
           !.isConnected = IF w.isConnected THEN FALSE ELSE @,
           !.lateTeardowns = IF w.isConnected /\ w.disconnectCalls > 0
                             THEN @ + 1 ELSE @,
           !.askedWhilePending = w.traced /\ w.initial = "pending"]

disconnect(w) ==
    LET called == IF w.traced
                  THEN [w EXCEPT !.disconnectCalls = Min(@ + 1, 2)]
                  ELSE w
    IN  IF w.clientDisconnected
        THEN called
        ELSE [called EXCEPT
                !.clientDisconnected = TRUE,
                !.reconnectEnabled = FALSE,
                \* if (getState()?.isConnected) this.#connection.disconnect()
                !.isConnected = IF w.isConnected THEN FALSE ELSE @,
                !.lateTeardowns = IF w.isConnected /\ w.disconnectCalls > 0
                                  THEN @ + 1 ELSE @,
                !.askedWhilePending = w.traced /\ w.initial = "pending"]

\* Faulty variant: #scheduleReconnect gives up without emitting anything.
scheduleReconnectSilent(w) ==
    IF ~w.reconnectEnabled \/ w.reconnectCount >= maxReconnectAttempts
    THEN w
    ELSE LET armed == [w EXCEPT !.timers = @ + 1] IN
         IF w.traced
         THEN [armed EXCEPT !.armedInRow = @ + 1,
                            !.lastArmedMs = w.reconnectWaitMs,
                            !.lastArmedAt = w.reconnectCount]
         ELSE armed

\* #scheduleReconnect: gives up (emits 'disconnected') or arms a timer.
scheduleReconnect(w) ==
    IF ~w.reconnectEnabled \/ w.reconnectCount >= maxReconnectAttempts
    THEN emitDisconnected(w, IF w.reconnectCount >= maxReconnectAttempts
                             THEN "exhausted" ELSE "disabled")
    ELSE LET armed == [w EXCEPT !.timers = @ + 1] IN
         IF w.traced
         THEN [armed EXCEPT !.armedInRow = @ + 1,
                            !.lastArmedMs = w.reconnectWaitMs,
                            !.lastArmedAt = w.reconnectCount]
         ELSE armed

\* Faulty variant: the callback does not look at reconnectEnabled.
timerCallbackUnchecked(w) ==
    LET fired == [w EXCEPT !.timers = @ - 1,
                           !.firedAfterDisconnect =
                               @ \/ (w.traced /\ w.clientDisconnected)] IN
    IF w.reconnectCount >= maxReconnectAttempts
    THEN fired
    ELSE connect([fired EXCEPT !.reconnectCount = @ + 1,
                               !.reconnectWaitMs = Min(@ * 2, maxReconnectWaitMs)],
                 TRUE)

\* Faulty variant: the check at fire time compares with > instead of >=.
timerCallbackLate(w) ==
    LET fired == [w EXCEPT !.timers = @ - 1,
                           !.firedAfterDisconnect =
                               @ \/ (w.traced /\ w.clientDisconnected)] IN
    IF ~w.reconnectEnabled \/ w.reconnectCount > maxReconnectAttempts
    THEN fired
    ELSE connect([fired EXCEPT !.reconnectCount = @ + 1,
                               !.reconnectWaitMs = Min(@ * 2, maxReconnectWaitMs)],
                 TRUE)

\* The setTimeout callback of #scheduleReconnect.
timerCallback(w) ==
    LET fired == [w EXCEPT !.timers = @ - 1,
                           !.firedAfterDisconnect =
                               @ \/ (w.traced /\ w.clientDisconnected)] IN
    IF ~w.reconnectEnabled \/ w.reconnectCount >= maxReconnectAttempts
    THEN fired
    ELSE connect([fired EXCEPT !.reconnectCount = @ + 1,
                               !.reconnectWaitMs = Min(@ * 2, maxReconnectWaitMs)],
                 TRUE)

\* Faulty variant: a success does not put reconnectWaitMs back to 1000.
connectResolvedKeepsWait(w, isReconnect) ==
    LET settled == IF isReconnect
                   THEN [w EXCEPT !.reconnecting = @ - 1]
                   ELSE [w EXCEPT !.initial = "resolved"]
        reset == [settled EXCEPT !.isConnected = TRUE,
                                 !.reconnectCount = 0,
                                 !.attempts = 0,
                                 !.armedInRow = 0,
                                 !.reconnected = @ \/ (w.traced /\ isReconnect)]
    IN  IF reset.clientDisconnected THEN disconnect(reset)
        ELSE IF ~isReconnect THEN emitConnected(reset, "initial")
        ELSE reset

\* Faulty variant: a successful reconnect emits 'connected' as well.
connectResolvedSignals(w, isReconnect) ==
    LET settled == IF isReconnect
                   THEN [w EXCEPT !.reconnecting = @ - 1]
                   ELSE [w EXCEPT !.initial = "resolved"]
        reset == [settled EXCEPT !.isConnected = TRUE,
                                 !.reconnectCount = 0,
                                 !.reconnectWaitMs = initialReconnectWaitMs,
                                 !.attempts = 0,
                                 !.armedInRow = 0,
                                 !.reconnected = @ \/ (w.traced /\ isReconnect)]
    IN  IF reset.clientDisconnected THEN disconnect(reset)
        ELSE emitConnected(reset, IF isReconnect THEN "reconnect" ELSE "initial")

\* connect() after its await resolved.
connectResolved(w, isReconnect) ==
    LET settled == IF isReconnect
                   THEN [w EXCEPT !.reconnecting = @ - 1]
                   ELSE [w EXCEPT !.initial = "resolved"]
        reset == [settled EXCEPT !.isConnected = TRUE,
                                 !.reconnectCount = 0,
                                 !.reconnectWaitMs = initialReconnectWaitMs,
                                 !.attempts = 0,
                                 !.armedInRow = 0,
                                 !.reconnected = @ \/ (w.traced /\ isReconnect)]
    IN  IF reset.clientDisconnected THEN disconnect(reset)
        ELSE IF ~isReconnect THEN emitConnected(reset, "initial")
        ELSE reset

\* Faulty variant: every failed reconnect attempt is reported as well.
connectRejectedReports(w, isReconnect) ==
    IF isReconnect
    THEN scheduleReconnect(emitDisconnected([w EXCEPT !.reconnecting = @ - 1], "retry"))
    ELSE emitDisconnected([w EXCEPT !.initial = "rejected"], "initial")

\* connect() after its await rejected.
connectRejected(w, isReconnect) ==
    IF isReconnect
    THEN scheduleReconnect([w EXCEPT !.reconnecting = @ - 1])
    ELSE emitDisconnected([w EXCEPT !.initial = "rejected"], "initial")

\* The 'disconnected' listener, without the counter.
onDisconnected(w) == scheduleReconnect([w EXCEPT !.isConnected = FALSE])

\* Faulty variant: the listener leaves reconnection enabled.
onStreamEndKeeps(w) == [w EXCEPT !.ended = w.traced]

\* The 'streamEnd' listener.
onStreamEnd(w) == [w EXCEPT !.reconnectEnabled = FALSE, !.ended = w.traced]

\* ------------------------------------------------------------------------
\* server.js: subscriber sockets
\* ------------------------------------------------------------------------
\* A socket right after io.on('connection').  made lists the wrappers the
\* socket's setUniqueId listener constructed, oldest first: the closure
\* variable tiktokConnectionWrapper holds the last of them, null when there
\* is none, and the earlier ones are no longer referenced by the server.
\* asked is history: the socket has sent setUniqueId before.
newSocket(h) ==
    [ handshake |-> h,
      made |-> << >>,
      asked |-> FALSE ]

Advisory == "Too many connections or requests."

RECURSIVE SeqToBag(_)
SeqToBag(q) == IF q = << >> THEN EmptyBag
               ELSE SetToBag({Head(q)}) (+) SeqToBag(Tail(q))

\* The wrappers a socket leaves behind when it goes: the socket's
\* 'disconnect' listener calls disconnect() on the one the variable holds.
leftBehind(socket) ==
    LET n == Len(socket.made) IN
    IF n = 0 THEN EmptyBag
    ELSE SeqToBag([socket.made EXCEPT ![n] = disconnect(@)])

RECURSIVE SumOver(_, _)
SumOver(S, f) ==
    IF S = {} THEN 0
    ELSE LET x == CHOOSE y \in S : TRUE IN f[x] + SumOver(S \ {x}, f)

wrappersOf(socket) == Len(socket.made)
WrapperCount ==
    SumOver(DOMAIN sockets, [s \in DOMAIN sockets |-> sockets[s] * wrappersOf(s)])
    + BagCardinality(departed)
LiveCount == BagCardinality(sockets)
OtherCount ==
    SumOver(DOMAIN sockets,
            [s \in DOMAIN sockets |-> IF s.handshake = DirectA THEN 0 ELSE sockets[s]])

Quiet == [op |-> "none"]

\* io.on('connection')
OpenSocket(h, lim) ==
    /\ LiveCount < lim.live
    /\ h # DirectA => OtherCount < MaxOther
    /\ sockets' = sockets (+) SetToBag({newSocket(h)})
    /\ last' = Quiet
    /\ UNCHANGED <<departed, ipRequestCounts, globalConnectionCount,
                   rateLimitEnabled, checks, floored>>

\* socket.on('disconnect')
SocketDisconnect(socket) ==
    /\ socket \in BagToSet(sockets)
    /\ sockets' = sockets (-) SetToBag({socket})
    /\ departed' = departed (+) leftBehind(socket)
    /\ last' = Quiet
    /\ UNCHANGED <<ipRequestCounts, globalConnectionCount, rateLimitEnabled,
                   checks, floored>>

\* Faulty variant: the wrapper is constructed and connect() called before the
\* admission check.
SetUniqueIdEager(socket, valid, lim) ==
    /\ socket \in BagToSet(sockets)
    /\ socket.asked => lim.again
    /\ LET ip == getSocketIp(socket)
           limited == rateLimitEnabled
           check == IF limited
                    THEN clientBlocked(sockets, socket, ipRequestCounts)
                    ELSE [blocked |-> FALSE, ipRequestCounts |-> ipRequestCounts]
           counted == limited /\ ip # Null
           made == [socket EXCEPT
                      !.made = Append(@, connect(newWrapper(lim.traced), FALSE)),
                      !.asked = TRUE]
           report == [op |-> "setUniqueId",
                      handshake |-> socket.handshake,
                      valid |-> valid,
                      ip |-> ip,
                      checked |-> limited,
                      unchanged |-> (check.ipRequestCounts = ipRequestCounts),
                      lapsed |-> IF last.op = "reset" THEN last.lapsed ELSE {},
                      nth |-> IF counted THEN MapGet(checks, ip) + 1 ELSE 0,
                      connections |-> MapGet(getOverallIpConnectionCounts(sockets), ip),
                      first |-> ~socket.asked,
                      wrappers |-> WrapperCount,
                      blocked |-> check.blocked]
       IN  /\ counted =>
                  MapGet(checks, ip) < (IF ip = "A" THEN MaxChecks ELSE MaxOtherChecks)
           /\ ipRequestCounts' = check.ipRequestCounts
           /\ checks' = IF counted THEN MapSet(checks, ip, MapGet(checks, ip) + 1)
                        ELSE checks
           /\ IF check.blocked
              THEN \* advisory, then socket.disconnect(true)
                   /\ sockets' = sockets (-) SetToBag({socket})
                   /\ departed' = departed (+) leftBehind(IF valid THEN made ELSE socket)
                   /\ last' = report @@
                              [emitted |-> Advisory, closed |-> TRUE, created |-> FALSE]
              ELSE IF ~valid
              THEN \* the constructor threw: err.toString() goes to the subscriber
                   /\ sockets' = (sockets (-) SetToBag({socket}))
                                 (+) SetToBag({[socket EXCEPT !.asked = TRUE]})
                   /\ departed' = departed
                   /\ last' = report @@
                              [emitted |-> "err", closed |-> FALSE, created |-> FALSE]
              ELSE /\ WrapperCount < lim.wrappers
                   /\ sockets' = (sockets (-) SetToBag({socket})) (+) SetToBag({made})
                   /\ departed' = departed
                   /\ last' = report @@
                              [emitted |-> "", closed |-> FALSE, created |-> TRUE]
    /\ UNCHANGED <<globalConnectionCount, rateLimitEnabled, floored>>

\* socket.on('setUniqueId'); valid: the wrapper's constructor accepts the
\* uniqueId and options (it throws otherwise).
SetUniqueId(socket, valid, lim) ==
    /\ socket \in BagToSet(sockets)
    /\ socket.asked => lim.again
    /\ LET ip == getSocketIp(socket)
           limited == rateLimitEnabled
           check == IF limited
                    THEN clientBlocked(sockets, socket, ipRequestCounts)
                    ELSE [blocked |-> FALSE, ipRequestCounts |-> ipRequestCounts]
           counted == limited /\ ip # Null
           made == [socket EXCEPT
                      !.made = Append(@, connect(newWrapper(lim.traced), FALSE)),
                      !.asked = TRUE]
           report == [op |-> "setUniqueId",
                      handshake |-> socket.handshake,
                      valid |-> valid,
                      ip |-> ip,
                      checked |-> limited,
                      unchanged |-> (check.ipRequestCounts = ipRequestCounts),
                      lapsed |-> IF last.op = "reset" THEN last.lapsed ELSE {},
                      nth |-> IF counted THEN MapGet(checks, ip) + 1 ELSE 0,
                      connections |-> MapGet(getOverallIpConnectionCounts(sockets), ip),
                      first |-> ~socket.asked,
                      wrappers |-> WrapperCount,
                      blocked |-> check.blocked]
       IN  /\ counted =>
                  MapGet(checks, ip) < (IF ip = "A" THEN MaxChecks ELSE MaxOtherChecks)
           /\ ipRequestCounts' = check.ipRequestCounts
           /\ checks' = IF counted THEN MapSet(checks, ip, MapGet(checks, ip) + 1)
                        ELSE checks
           /\ IF check.blocked
              THEN \* advisory, then socket.disconnect(true)
                   /\ sockets' = sockets (-) SetToBag({socket})
                   /\ departed' = departed (+) leftBehind(socket)
                   /\ last' = report @@
                              [emitted |-> Advisory, closed |-> TRUE, created |-> FALSE]
              ELSE IF ~valid
              THEN \* the constructor threw: err.toString() goes to the subscriber
                   /\ sockets' = (sockets (-) SetToBag({socket}))
                                 (+) SetToBag({[socket EXCEPT !.asked = TRUE]})
                   /\ departed' = departed
                   /\ last' = report @@
                              [emitted |-> "err", closed |-> FALSE, created |-> FALSE]
              ELSE /\ WrapperCount < lim.wrappers
                   /\ sockets' = (sockets (-) SetToBag({socket})) (+) SetToBag({made})
                   /\ departed' = departed
                   /\ last' = report @@
                              [emitted |-> "", closed |-> FALSE, created |-> TRUE]
    /\ UNCHANGED <<globalConnectionCount, rateLimitEnabled, floored>>

\* Faulty variant: the timer runs but leaves the request map as it is.
PeriodResetKeeps ==
    /\ ipRequestCounts' = ipRequestCounts
    /\ checks' = EmptyMap
    /\ last' = [op |-> "reset",
                lapsed |-> { i \in Identities :
                             MapGet(ipRequestCounts, i) > MAX_IP_REQUESTS_PER_MINUTE + 1 }]
    /\ UNCHANGED <<sockets, departed, globalConnectionCount, rateLimitEnabled, floored>>

\* limiter.js: the setInterval callback
\* (lapsed: the identities that had a request refused over the request
\* ceiling in the window that ends)
PeriodReset ==
    /\ ipRequestCounts' = EmptyMap
    /\ checks' = EmptyMap
    /\ last' = [op |-> "reset",
                lapsed |-> { i \in Identities :
                             MapGet(ipRequestCounts, i) > MAX_IP_REQUESTS_PER_MINUTE + 1 }]
    /\ UNCHANGED <<sockets, departed, globalConnectionCount, rateLimitEnabled, floored>>

\* ------------------------------------------------------------------------
\* Where the wrappers are: the index-th wrapper a live socket made, or a
\* wrapper in the departed bag.
\* ------------------------------------------------------------------------
NoSocket == newSocket(DirectA)

Places ==
    UNION { { [kind |-> "live", socket |-> s, index |-> i, wrapper |-> s.made[i]] :
              i \in 1..Len(s.made) } : s \in BagToSet(sockets) }
    \cup { [kind |-> "departed", socket |-> NoSocket, index |-> 0, wrapper |-> w] :
           w \in BagToSet(departed) }

Wrappers == { pl.wrapper : pl \in Places }

\* The wrapper at place pl becomes w2.
Put(pl, w2, lim) ==
    /\ w2.timers <= lim.timers
    /\ w2.reconnecting <= lim.inflight
    /\ IF pl.kind = "live"
       THEN /\ sockets' = (sockets (-) SetToBag({pl.socket}))
                          (+) SetToBag({[pl.socket EXCEPT !.made[pl.index] = w2]})
            /\ departed' = departed
       ELSE /\ departed' = (departed (-) SetToBag({pl.wrapper})) (+) SetToBag({w2})
            /\ sockets' = sockets

\* ------------------------------------------------------------------------
\* connectionWrapper.js: what the upstream session and the timers do
\* ------------------------------------------------------------------------
\* await this.#connection.connect() resolves
ConnectResolves(pl, isReconnect, lim) ==
    /\ IF isReconnect THEN pl.wrapper.reconnecting > 0
                      ELSE pl.wrapper.initial = "pending"
    /\ Put(pl, connectResolved(pl.wrapper, isReconnect), lim)
    /\ globalConnectionCount' = globalConnectionCount + 1
    /\ last' = Quiet
    /\ UNCHANGED <<ipRequestCounts, rateLimitEnabled, checks, floored>>

\* await this.#connection.connect() rejects
ConnectRejects(pl, isReconnect, lim) ==
    /\ IF isReconnect THEN pl.wrapper.reconnecting > 0
                      ELSE pl.wrapper.initial = "pending"
    /\ Put(pl, connectRejected(pl.wrapper, isReconnect), lim)
    /\ last' = Quiet
    /\ UNCHANGED <<ipRequestCounts, globalConnectionCount, rateLimitEnabled,
                   checks, floored>>

\* Faulty variant: the counter is decremented without the floor at zero.
UpstreamDisconnectedUnfloored(pl, spurious, lim) ==
    /\ pl.wrapper.isConnected \/ spurious
    /\ Put(pl, onDisconnected(pl.wrapper), lim)
    /\ globalConnectionCount' = globalConnectionCount - 1
    /\ floored' = (floored \/ globalConnectionCount = 0)
    /\ last' = Quiet
    /\ UNCHANGED <<ipRequestCounts, rateLimitEnabled, checks>>

\* the upstream raises 'disconnected'; spurious: also for a session that is
\* not connected
UpstreamDisconnected(pl, spurious, lim) ==
    /\ pl.wrapper.isConnected \/ spurious
    /\ Put(pl, onDisconnected(pl.wrapper), lim)
    /\ globalConnectionCount' = Max(0, globalConnectionCount - 1)
    /\ floored' = (floored \/ globalConnectionCount = 0)
    /\ last' = Quiet
    /\ UNCHANGED <<ipRequestCounts, rateLimitEnabled, checks>>

\* the upstream raises 'streamEnd'
UpstreamStreamEnd(pl, lim) ==
    /\ pl.wrapper.isConnected
    /\ Put(pl, onStreamEnd(pl.wrapper), lim)
    /\ last' = Quiet
    /\ UNCHANGED <<ipRequestCounts, globalConnectionCount, rateLimitEnabled,
                   checks, floored>>

\* a reconnect timer runs out
TimerFires(pl, lim) ==
    /\ pl.wrapper.timers > 0
    /\ Put(pl, timerCallback(pl.wrapper), lim)
    /\ last' = Quiet
    /\ UNCHANGED <<ipRequestCounts, globalConnectionCount, rateLimitEnabled,
                   checks, floored>>

InitWith(limit) ==
    /\ sockets = EmptyBag
    /\ departed = EmptyBag
    /\ ipRequestCounts = EmptyMap
    /\ globalConnectionCount = 0
    /\ rateLimitEnabled = limit
    /\ checks = EmptyMap
    /\ last = Quiet
    /\ floored = FALSE

\* ------------------------------------------------------------------------
\* The admission layer: subscribers come, send one well-formed request each
\* and go; the upstream sessions of the wrappers they make have not answered
\* yet.
\* ------------------------------------------------------------------------
InitAdmission == InitWith(TRUE)

AdmissionLimits ==
    [live |-> MaxLive, wrappers |-> MaxAdmitted, again |-> FALSE, traced |-> FALSE,
     timers |-> 0, inflight |-> 0]

NextAdmission ==
    \/ \E h \in Handshakes : OpenSocket(h, AdmissionLimits)
    \/ \E s \in BagToSet(sockets) : SocketDisconnect(s)
    \/ \E s \in BagToSet(sockets) : SetUniqueId(s, TRUE, AdmissionLimits)
    \/ PeriodReset

SpecAdmission == InitAdmission /\ [][NextAdmission]_vars

\* ------------------------------------------------------------------------
\* The session lifecycle: one subscriber session with its upstream session
\* and timers, rate limiting off (the default), history kept.
\* ------------------------------------------------------------------------
Init == InitWith(FALSE)

Limits ==
    [live |-> MaxSockets, wrappers |-> MaxWrappers, again |-> TRUE, traced |-> TRUE,
     timers |-> MaxTimers, inflight |-> MaxInFlight]

Next ==
    \/ OpenSocket(DirectA, Limits)
    \/ \E s \in BagToSet(sockets) : SocketDisconnect(s)
    \/ \E s \in BagToSet(sockets), valid \in BOOLEAN : SetUniqueId(s, valid, Limits)
    \/ \E pl \in Places, isReconnect \in BOOLEAN : ConnectResolves(pl, isReconnect, Limits)
    \/ \E pl \in Places, isReconnect \in BOOLEAN : ConnectRejects(pl, isReconnect, Limits)
    \/ \E pl \in Places : UpstreamDisconnected(pl, TRUE, Limits)
    \/ \E pl \in Places : UpstreamStreamEnd(pl, Limits)
    \/ \E pl \in Places : TimerFires(pl, Limits)

Spec == Init /\ [][Next]_vars

\* ------------------------------------------------------------------------
\* The fleet: several sessions side by side sharing the connection counter,
\* well-formed requests only, no history kept.
\* ------------------------------------------------------------------------
FleetLimits ==
    [live |-> FleetSockets, wrappers |-> FleetWrappers, again |-> TRUE, traced |-> FALSE,
     timers |-> FleetTimers, inflight |-> FleetInFlight]

NextFleet ==
    \/ OpenSocket(DirectA, FleetLimits)
    \/ \E s \in BagToSet(sockets) : SocketDisconnect(s)
    \/ \E s \in BagToSet(sockets) : SetUniqueId(s, TRUE, FleetLimits)
    \/ \E pl \in Places, isReconnect \in BOOLEAN : ConnectResolves(pl, isReconnect, FleetLimits)
    \/ \E pl \in Places, isReconnect \in BOOLEAN : ConnectRejects(pl, isReconnect, FleetLimits)
    \/ \E pl \in Places : UpstreamDisconnected(pl, TRUE, FleetLimits)
    \/ \E pl \in Places : UpstreamStreamEnd(pl, FleetLimits)
    \/ \E pl \in Places : TimerFires(pl, FleetLimits)

SpecFleet == Init /\ [][NextFleet]_vars

\* ------------------------------------------------------------------------
\* The fleet with an orderly upstream: 'disconnected' is raised only for a
\* session that is connected.
\* ------------------------------------------------------------------------
NextOrderly ==
    \/ OpenSocket(DirectA, FleetLimits)
    \/ \E s \in BagToSet(sockets) : SocketDisconnect(s)
    \/ \E s \in BagToSet(sockets) : SetUniqueId(s, TRUE, FleetLimits)
    \/ \E pl \in Places, isReconnect \in BOOLEAN : ConnectResolves(pl, isReconnect, FleetLimits)
    \/ \E pl \in Places, isReconnect \in BOOLEAN : ConnectRejects(pl, isReconnect, FleetLimits)
    \/ \E pl \in Places : UpstreamDisconnected(pl, FALSE, FleetLimits)
    \/ \E pl \in Places : UpstreamStreamEnd(pl, FleetLimits)
    \/ \E pl \in Places : TimerFires(pl, FleetLimits)

SpecOrderly == Init /\ [][NextOrderly]_vars

\* ------------------------------------------------------------------------
\* A lost session: one subscriber session whose upstream session, once it
\* has been connected, raises 'disconnected' (more than once, too) and
\* refuses every reconnect attempt; the subscriber stays and the stream does
\* not end.  Timers fire and connect attempts settle eventually.  At most
\* LostPending timers and attempts are pending together.
\* ------------------------------------------------------------------------
LostLimits ==
    [live |-> MaxSockets, wrappers |-> MaxWrappers, again |-> TRUE, traced |-> TRUE,
     timers |-> LostPending, inflight |-> LostPending]

LostTimerFires == \E pl \in Places : TimerFires(pl, LostLimits)
LostReconnectRejects == \E pl \in Places : ConnectRejects(pl, TRUE, LostLimits)

NextLost ==
    \/ OpenSocket(DirectA, LostLimits)
    \/ \E s \in BagToSet(sockets), valid \in BOOLEAN : SetUniqueId(s, valid, LostLimits)
    \/ \E pl \in Places : ConnectResolves(pl, FALSE, LostLimits)
    \/ \E pl \in Places : ConnectRejects(pl, FALSE, LostLimits)
    \/ \E pl \in Places :
          /\ pl.wrapper.initial = "resolved"
          /\ pl.wrapper.timers + pl.wrapper.reconnecting < LostPending
          /\ UpstreamDisconnected(pl, TRUE, LostLimits)
    \/ LostReconnectRejects
    \/ LostTimerFires

SpecLost ==
    /\ Init /\ [][NextLost]_vars
    /\ WF_vars(LostTimerFires)
    /\ WF_vars(LostReconnectRejects)

\* ------------------------------------------------------------------------
\* Properties
\* ------------------------------------------------------------------------
\* The last handler run was an admission check of a resolved identity.
Checked == last.op = "setUniqueId" /\ last.checked /\ last.ip # Null

\* C1: if disconnect() is called on a wrapper while its initial connect() is
\* pending and that connect then succeeds, the upstream session is not left
\* connected.
C1_PendingDisconnectEndsDisconnected ==
    \A w \in Wrappers :
        (w.askedWhilePending /\ w.initial = "resolved") => ~w.isConnected

\* C2: within one window and with at most MAX_IP_CONNECTIONS live
\* connections, the first five admission checks of an identity are allowed
\* and the sixth is blocked.
C2_SixthCheckIsFirstBlocked ==
    (Checked /\ last.connections <= MAX_IP_CONNECTIONS) =>
        /\ last.nth <= MAX_IP_REQUESTS_PER_MINUTE => ~last.blocked
        /\ last.nth = MAX_IP_REQUESTS_PER_MINUTE + 1 => last.blocked

\* C3: an admission check of an identity that is within its request ceiling
\* is allowed with 10 (or fewer) live connections of that identity, the
\* requester's own included, and blocked with 11 (or more).
C3_TenthConnectionAllowedEleventhBlocked ==
    (Checked /\ last.nth <= MAX_IP_REQUESTS_PER_MINUTE) =>
        /\ last.connections <= MAX_IP_CONNECTIONS => ~last.blocked
        /\ last.connections > MAX_IP_CONNECTIONS => last.blocked

C3_Witness ==
    /\ Checked
    /\ last.nth <= MAX_IP_REQUESTS_PER_MINUTE
    /\ last.connections = MAX_IP_CONNECTIONS + 1
    /\ last.blocked

\* The last request was refused: advisory sent, socket closed, no wrapper.
Rejected ==
    last.blocked /\ last.emitted = Advisory /\ last.closed /\ ~last.created

\* C4 as stated: when one identity's connections each request a session
\* within one window, the 11th request is rejected with the advisory and
\* disconnected and each of the requests 1 to 10 (made with at most 10 live
\* connections) is admitted and gets a wrapper.
C4_FirstTenAdmittedEleventhRejected ==
    (Checked /\ last.first) =>
        /\ (last.nth <= MAX_IP_CONNECTIONS /\ last.connections <= MAX_IP_CONNECTIONS)
               => (~last.blocked /\ last.created)
        /\ last.nth = MAX_IP_CONNECTIONS + 1 => Rejected

\* C4 as amended: the 11th request is rejected with the advisory and
\* disconnected, and so is every request after the 6th of the window; each of
\* the requests 1 to 6 made with at most 10 live connections is admitted and
\* gets a wrapper.
C4_EleventhRejectedFirstSixAdmitted ==
    (Checked /\ last.first) =>
        /\ last.nth = MAX_IP_CONNECTIONS + 1 => Rejected
        /\ last.nth > MAX_IP_REQUESTS_PER_MINUTE + 1 => Rejected
        /\ (last.nth <= MAX_IP_REQUESTS_PER_MINUTE + 1
              /\ last.connections <= MAX_IP_CONNECTIONS)
               => (~last.blocked /\ last.created /\ ~last.closed)

C4_Witness ==
    Checked /\ last.first /\ last.nth = MAX_IP_CONNECTIONS + 1 /\ Rejected

\* C5: the period timer resets every identity's request count together (the
\* map always holds, for each identity, the checks made since the timer last
\* fired), and an identity that was refused over the request ceiling before
\* the timer fired is allowed on its next check when it has at most 10 live
\* connections.
C5_PeriodResetsEveryIdentity ==
    /\ \A i \in Identities : MapGet(ipRequestCounts, i) = MapGet(checks, i)
    /\ last.op = "reset" => ipRequestCounts = EmptyMap
    /\ (Checked /\ last.ip \in last.lapsed /\ last.connections <= MAX_IP_CONNECTIONS)
           => ~last.blocked

C5_Witness ==
    Checked /\ last.ip \in last.lapsed /\ ~last.blocked /\ last.created

\* C6: a requester whose identity cannot be resolved (no peer address, or a
\* loopback peer address without forwarded-address header) is never blocked
\* and no request count changes, in every state of the limiter.
Unresolvable(h) ==
    ~Truthy(h.address) \/ (h.address \in Loopback /\ ~Truthy(h.xff))

C6_UnresolvedIdentityFailsOpen ==
    /\ (last.op = "setUniqueId" /\ last.checked /\ Unresolvable(last.handshake))
           => (~last.blocked /\ last.unchanged)
    /\ \A h \in Handshakes :
           Unresolvable(h) =>
               clientBlocked(sockets, newSocket(h), ipRequestCounts)
                   = [blocked |-> FALSE, ipRequestCounts |-> ipRequestCounts]

C6_Witness ==
    /\ last.op = "setUniqueId" /\ last.checked /\ Unresolvable(last.handshake)
    /\ ~last.blocked
    /\ MapGet(ipRequestCounts, "A") > MAX_IP_REQUESTS_PER_MINUTE + 1
    /\ MapGet(getOverallIpConnectionCounts(sockets), "A") > MAX_IP_CONNECTIONS

RECURSIVE Pow2(_)
Pow2(n) == IF n <= 0 THEN 1 ELSE 2 * Pow2(n - 1)

\* C7: a wrapper starts at most maxReconnectAttempts (5) reconnect attempts
\* without a successful connect in between, and reconnectCount never
\* exceeds 5.
C7_AtMostFiveReconnectAttempts ==
    \A w \in Wrappers :
        /\ w.attempts <= maxReconnectAttempts
        /\ w.reconnectCount <= maxReconnectAttempts

\* the fifth attempt in a row has failed and the wrapper has given up
C7_Witness ==
    \E w \in Wrappers :
        /\ w.attempts = maxReconnectAttempts
        /\ w.reconnecting = 0 /\ w.timers = 0
        /\ w.reconnectEnabled /\ ~w.isConnected

\* C8: the k-th reconnect timer armed since the last successful connect is
\* armed with min(1000 * 2^(k-1), 32000) ms.
C8_KthTimerDelay ==
    \A w \in Wrappers :
        w.armedInRow >= 1 =>
            w.lastArmedMs = Min(initialReconnectWaitMs * Pow2(w.armedInRow - 1),
                                maxReconnectWaitMs)

\* C9: a second call of disconnect() does nothing: it never invokes the
\* upstream session's disconnect(), and in every state reached after a
\* first call a further call leaves the wrapper and its upstream session as
\* they are.
SameButCalls(a, b) ==
    [a EXCEPT !.disconnectCalls = 0] = [b EXCEPT !.disconnectCalls = 0]

C9_SecondDisconnectDoesNothing ==
    \A w \in Wrappers :
        /\ w.lateTeardowns = 0
        /\ w.disconnectCalls >= 1 => (w.clientDisconnected /\ ~w.reconnectEnabled)
        /\ w.clientDisconnected => SameButCalls(disconnect(w), w)

C9_Witness == \E w \in Wrappers : w.disconnectCalls = 2

\* C10: the global connection counter is never negative.
C10_CounterNeverNegative == globalConnectionCount >= 0

\* a 'disconnected' event has arrived with the counter at zero
C10_Witness ==
    floored /\ globalConnectionCount = 0 /\ WrapperCount = FleetWrappers

\* C11: once the 'streamEnd' listener has run, reconnectEnabled is false for
\* good and no connect(true) is called any more: a later 'disconnected'
\* event arms no timer, and a timer armed earlier that is still pending does
\* nothing but run out when it fires.
C11_NoReconnectAfterStreamEnd ==
    \A w \in Wrappers :
        w.ended =>
            /\ ~w.reconnectEnabled
            /\ ~w.startedAfterEnd
            /\ scheduleReconnect(w).timers = w.timers
            /\ w.timers > 0 =>
                   LET fired == timerCallback(w) IN
                   /\ fired.timers = w.timers - 1
                   /\ fired.reconnecting = w.reconnecting
                   /\ fired.reconnectCount = w.reconnectCount

\* the stream has ended with a timer still pending, and a 'disconnected'
\* event has arrived since
C11_Witness ==
    \E w \in Wrappers :
        /\ w.ended /\ ~w.clientDisconnected
        /\ w.timers > 0
        /\ "disabled" \in w.disconnectedCauses

\* C12: a wrapper emits 'disconnected' at most once, and only because the
\* initial connect failed or because the reconnect attempts were exhausted.
C12_DisconnectedOnceInitialOrExhausted ==
    \A w \in Wrappers :
        /\ w.emittedDisconnected <= 1
        /\ w.disconnectedCauses \subseteq {"initial", "exhausted"}

\* C12 as amended: a wrapper emits 'disconnected' only because the initial
\* connect failed (once at most, and then always), or from #scheduleReconnect
\* when it arms no timer: with the reconnect attempts exhausted, or with
\* reconnection disabled by streamEnd or disconnect(), which is for good.
\* These emissions are repeated by every further 'disconnected' event and
\* failed reconnect attempt.
C12_DisconnectedWhenNotRetrying ==
    \A w \in Wrappers :
        /\ w.disconnectedCauses \subseteq {"initial", "exhausted", "disabled"}
        /\ w.emittedDisconnected = 0 <=> w.disconnectedCauses = {}
        /\ "initial" \in w.disconnectedCauses <=> w.initial = "rejected"
        /\ w.disconnectedCauses = {"initial"} => w.emittedDisconnected = 1
        /\ "disabled" \in w.disconnectedCauses =>
               (~w.reconnectEnabled /\ (w.ended \/ w.clientDisconnected))
        /\ LET again == scheduleReconnect(w) IN
           IF ~w.reconnectEnabled \/ w.reconnectCount >= maxReconnectAttempts
           THEN /\ again.timers = w.timers
                /\ again.emittedDisconnected = Min(w.emittedDisconnected + 1, 2)
           ELSE /\ again.timers = w.timers + 1
                /\ again.emittedDisconnected = w.emittedDisconnected

\* 'disconnected' has been emitted twice, once of them because the stream had
\* ended
C12_Witness ==
    \E w \in Wrappers :
        /\ w.emittedDisconnected = 2
        /\ "disabled" \in w.disconnectedCauses
        /\ w.ended /\ ~w.clientDisconnected

\* C13: a wrapper emits 'connected' at most once: when its initial connect
\* succeeds and disconnect() has not been called by then, and only then; a
\* successful reconnect attempt never emits it.
C13_ConnectedOnceForInitialConnect ==
    \A w \in Wrappers :
        /\ w.emittedConnected <= 1
        /\ w.connectedCauses \subseteq {"initial"}
        /\ w.emittedConnected = 1 <=> (w.initial = "resolved" /\ ~w.askedWhilePending)
        /\ w.reconnecting > 0 =>
               connectResolved(w, TRUE).emittedConnected = w.emittedConnected

\* 'connected' was emitted and a reconnect attempt has succeeded since
C13_Witness ==
    \E w \in Wrappers : w.emittedConnected = 1 /\ w.reconnected /\ w.isConnected

\* C14: when the admission check blocks a request, the subscriber is sent
\* the advisory as 'tiktokDisconnected' and is disconnected (it is one live
\* connection of its identity less), and no wrapper is constructed and no
\* upstream connect started for the request.
C14_BlockedRequestGetsAdvisoryOnly ==
    (last.op = "setUniqueId" /\ last.blocked) =>
        /\ last.emitted = Advisory
        /\ last.closed
        /\ ~last.created
        /\ MapGet(getOverallIpConnectionCounts(sockets), last.ip) = last.connections - 1
        /\ WrapperCount = last.wrappers

\* a request was blocked while admitted sessions of the identity were running
C14_Witness ==
    /\ last.op = "setUniqueId" /\ last.blocked
    /\ last.emitted = Advisory
    /\ last.wrappers >= 2
    /\ last.connections <= MAX_IP_CONNECTIONS

\* C15: a wrapper never has two connect attempts in flight and never has
\* more than one reconnect timer armed.
C15_OneAttemptOneTimer ==
    \A w \in Wrappers :
        /\ w.reconnecting + (IF w.initial = "pending" THEN 1 ELSE 0) <= 1
        /\ w.timers <= 1

\* C16: after disconnect() has been called on a wrapper it calls connect no
\* more: a reconnect timer armed before the call that fires after it changes
\* neither reconnectCount nor reconnectWaitMs and starts no attempt, and no
\* new timer is armed.
C16_NoConnectAfterDisconnect ==
    \A w \in Wrappers :
        w.clientDisconnected =>
            /\ ~w.startedAfterDisconnect
            /\ scheduleReconnect(w).timers = w.timers
            /\ w.timers > 0 =>
                   LET fired == timerCallback(w) IN
                   /\ fired.reconnectCount = w.reconnectCount
                   /\ fired.reconnectWaitMs = w.reconnectWaitMs
                   /\ fired.reconnecting = w.reconnecting
                   /\ fired.timers = w.timers - 1

\* a timer armed before disconnect() has fired after it, another is pending
C16_Witness ==
    \E w \in Wrappers :
        /\ w.clientDisconnected /\ w.firedAfterDisconnect
        /\ w.timers > 0
        /\ w.reconnectCount < maxReconnectAttempts

\* C17: when the upstream session is lost and every reconnect attempt fails
\* (no disconnect(), no streamEnd), the wrapper eventually emits
\* 'disconnected' from #scheduleReconnect with the attempts exhausted (the
\* message is "Connection lost. " and the reason); from then on it calls
\* connect no more and its upstream session is not connected.
Reconnecting == \E w \in Wrappers : w.timers > 0 \/ w.reconnecting > 0
GaveUp == \E w \in Wrappers : "exhausted" \in w.disconnectedCauses

C17_LostSessionIsAbandoned ==
    /\ Reconnecting ~> GaveUp
    /\ [](\A w \in Wrappers :
            /\ ~w.startedAfterGiveUp
            /\ "exhausted" \in w.disconnectedCauses =>
                   (~w.isConnected /\ w.reconnectCount = maxReconnectAttempts))

\* the fifth attempt has failed, the wrapper has given up and nothing is
\* pending
C17_Witness ==
    \E w \in Wrappers :
        /\ "exhausted" \in w.disconnectedCauses
        /\ w.attempts = maxReconnectAttempts
        /\ w.timers = 0 /\ w.reconnecting = 0
        /\ w.emittedConnected = 1

\* C18: every wrapper constructed for a subscriber that has disconnected has
\* had disconnect() called on it: it neither reconnects nor stays connected.
C18_DepartedWrappersTornDown ==
    \A w \in BagToSet(departed) :
        /\ w.clientDisconnected
        /\ ~w.reconnectEnabled

\* C19: with 'disconnected' raised only for connected sessions, the global
\* connection counter equals the number of upstream sessions that are
\* connected, over all wrappers.
RECURSIVE ConnectedIn(_)
ConnectedIn(made) ==
    IF made = << >> THEN 0
    ELSE (IF Head(made).isConnected THEN 1 ELSE 0) + ConnectedIn(Tail(made))

ConnectedCount ==
    SumOver(DOMAIN sockets,
            [s \in DOMAIN sockets |-> sockets[s] * ConnectedIn(s.made)])
    + SumOver(DOMAIN departed,
              [w \in DOMAIN departed |-> IF w.isConnected THEN departed[w] ELSE 0])

C20_WaitFollowsCount ==
    \A w \in Wrappers :
        /\ w.reconnectCount \in 0..maxReconnectAttempts
        /\ w.reconnectWaitMs = Min(initialReconnectWaitMs * Pow2(w.reconnectCount),
                                   maxReconnectWaitMs)
        /\ w.timers > 0 =>
               LET fired == timerCallback(w) IN
               fired.reconnectCount \in {w.reconnectCount, w.reconnectCount + 1}
        /\ w.reconnecting > 0 =>
               /\ connectResolved(w, TRUE).reconnectCount = 0
               /\ connectRejected(w, TRUE).reconnectCount = w.reconnectCount

\* five attempts in a row: the count is 5 and the wait has reached its cap
C20_Witness ==
    \E w \in Wrappers :
        /\ w.reconnectCount = maxReconnectAttempts
        /\ w.reconnectWaitMs = maxReconnectWaitMs

====
